---- MODULE Spec2Model ----
(***************************************************************************)
(* Model of "Pew National Latino Surveys.ipynb": the helper quick_crosstab *)
(* (pd.crosstab with value-label mapping, column normalisation, .loc       *)
(* reordering and scaling to percentages) and the notebook's cells.        *)
(*                                                                         *)
(* Numbers are exact rationals <<n, d>> in lowest terms (d > 0); the       *)
(* floating not-a-number is <<0, 0>> and +infinity is <<1, 0>>.  Floating  *)
(* rounding is not modelled: "100 up to rounding" is 100 exactly here.     *)
(* pandas is the 1.x series the notebook's kernel (Python 3.8.3) runs:     *)
(* .loc with a list holding a label that is not in the axis raises         *)
(* KeyError, and crosstab(normalize=...) ends with fillna(0).              *)
(***************************************************************************)
EXTENDS Integers, Sequences, FiniteSets, TLC

\* df, meta: the loaded table and its metadata; ct: the table bound to the
\* result of quick_crosstab(df, meta, x, y, df.weights), by <<x, y>>; last: the
\* <<x, y>> of the latest call; prev: what the call before the latest one with
\* the same <<x, y>> returned (history, kept by the session).  files, ns, pc, err: the notebook's run (the
\* two .sav files, the kernel's namespace, the next cell, the exception the
\* latest cell ended with).
VARIABLES df, meta, ct, last, prev, files, ns, pc, err

vars == <<df, meta, ct, last, prev, files, ns, pc, err>>

\* ------------------------------------------------------------------ bounds
MaxRows == 2
MaxExampleRows == 3
MaxSessionRows == 1
MaxSurveyRows == 1

\* ------------------------------------------------------------- value space
\* A missing value of a label Series (pandas NaN in an object column), also a
\* missing raw code.
NaN == "NaN"

\* Floating values.
NaNv == <<0, 0>>
Inf == <<1, 0>>

RECURSIVE Gcd(_, _)
Gcd(a, b) == IF b = 0 THEN a ELSE Gcd(b, a % b)

\* The rational n/d (n >= 0), as the float division n/d gives it.
Frac(n, d) ==
  IF d = 0 THEN (IF n = 0 THEN NaNv ELSE Inf)
  ELSE LET g == Gcd(n, d) IN <<n \div g, d \div g>>

Num(n) == <<n, 1>>

IsNaN(a) == a = NaNv

\* a / b on floats.
Div(a, b) ==
  IF IsNaN(a) \/ IsNaN(b) THEN NaNv
  ELSE IF a = Inf THEN (IF b = Inf THEN NaNv ELSE Inf)
  ELSE IF b = Inf THEN Num(0)
  ELSE IF b[1] = 0 THEN (IF a[1] = 0 THEN NaNv ELSE Inf)
  ELSE Frac(a[1] * b[2], a[2] * b[1])

\* a + b on floats.
Add(a, b) ==
  IF IsNaN(a) \/ IsNaN(b) THEN NaNv
  ELSE IF a = Inf \/ b = Inf THEN Inf
  ELSE Frac(a[1] * b[2] + b[1] * a[2], a[2] * b[2])

\* a * k on floats, k a positive integer.
Times(a, k) ==
  IF IsNaN(a) THEN NaNv
  ELSE IF a = Inf THEN Inf
  ELSE Frac(a[1] * k, a[2])

\* ---------------------------------------------------------------- the data
\* df[c]: a column of the table as a Series.
Column(d, c) == [i \in 1..Len(d) |-> d[i][c]]

\* meta.variable_value_labels[c] is a dict code -> label, kept in insertion
\* order: a sequence of <<code, label>> with distinct codes.
variable_value_labels(m, c) == m[c]

\* dict.values(): the labels in the dict's order.
values(labels) == [i \in 1..Len(labels) |-> labels[i][2]]

\* Series.map(dict): the label of each code, NaN for a code the dict lacks.
map(series, labels) ==
  [i \in 1..Len(series) |->
     IF \E k \in 1..Len(labels) : labels[k][1] = series[i]
     THEN labels[CHOOSE k \in 1..Len(labels) : labels[k][1] = series[i]][2]
     ELSE NaN]

\* The order groupby sorts its keys in (lexicographic on the label strings).
LabelOrder == <<"1", "2", "A", "B", "NaN", "No", "Yes">>

Pos(l) == CHOOSE k \in 1..Len(LabelOrder) : LabelOrder[k] = l

RECURSIVE SortLabels(_)
SortLabels(S) ==
  IF S = {} THEN <<>>
  ELSE LET lo == CHOOSE l \in S : \A o \in S : Pos(l) <= Pos(o)
       IN <<lo>> \o SortLabels(S \ {lo})

\* groupby with dropna=False: a missing key is a group of its own.
GroupKeysKeepNaN(r, c) == {<<r[i], c[i]>> : i \in 1..Len(r)}

\* groupby([row, col]): the keys of the groups; a row with NaN in a key is in
\* no group.
GroupKeys(r, c) ==
  {<<r[i], c[i]>> : i \in {j \in 1..Len(r) : r[j] # NaN /\ c[j] # NaN}}

\* aggfunc=sum: the sum of the values of the rows of group k, from row i on.
RECURSIVE GroupSum(_, _, _, _, _)
GroupSum(r, c, v, k, i) ==
  IF i > Len(r) THEN 0
  ELSE (IF <<r[i], c[i]>> = k THEN v[i] ELSE 0) + GroupSum(r, c, v, k, i + 1)

\* DataFrame.pivot_table(values, index, columns, aggfunc=sum, dropna=True):
\* one row per row label and one column per column label that some group
\* has, both sorted; a cell no group falls into is NaN.  Every column holds
\* the sum of a group, so dropna=True finds no all-NaN column to drop.
pivot_table(r, c, v) ==
  LET keys == GroupKeys(r, c)
      idx == SortLabels({k[1] : k \in keys})
      cols == SortLabels({k[2] : k \in keys})
  IN [index |-> idx,
      columns |-> cols,
      cells |-> [i \in 1..Len(idx) |-> [j \in 1..Len(cols) |->
                   IF <<idx[i], cols[j]>> \in keys
                   THEN Num(GroupSum(r, c, v, <<idx[i], cols[j]>>, 1))
                   ELSE NaNv]]]

\* DataFrame.sum() of column j, skipping NaN, from row i on.
RECURSIVE ColumnSum(_, _, _)
ColumnSum(t, j, i) ==
  IF i > Len(t.index) THEN Num(0)
  ELSE LET rest == ColumnSum(t, j, i + 1)
       IN IF IsNaN(t.cells[i][j]) THEN rest ELSE Add(t.cells[i][j], rest)

\* No filling: the table as it is.
fillna_none(t) == t

\* DataFrame.fillna(0).
fillna(t) ==
  [t EXCEPT !.cells = [i \in 1..Len(t.index) |-> [j \in 1..Len(t.columns) |->
     IF IsNaN(t.cells[i][j]) THEN Num(0) ELSE t.cells[i][j]]]]

\* x / x.sum() alone, as DataFrame.div gives it.
normalize_nofill(t) ==
  [t EXCEPT !.cells = [i \in 1..Len(t.index) |-> [j \in 1..Len(t.columns) |->
     Div(t.cells[i][j], ColumnSum(t, j, 1))]]]

\* _normalize(table, 'columns'): x / x.sum(), then fillna(0).
normalize(t) ==
  fillna([t EXCEPT !.cells = [i \in 1..Len(t.index) |-> [j \in 1..Len(t.columns) |->
     Div(t.cells[i][j], ColumnSum(t, j, 1))]]])

\* pd.crosstab(index, columns, values, aggfunc=sum, dropna=True,
\* normalize='columns').
crosstab(r, c, v) == normalize(pivot_table(r, c, v))

Find(seq, l) == CHOOSE k \in 1..Len(seq) : seq[k] = l

Has(seq, l) == \E k \in 1..Len(seq) : seq[k] = l

KeyError == [raised |-> "KeyError"]

Raised(t) == "raised" \in DOMAIN t

\* .reindex(labels), which .loc[labels] was before pandas 1.0: a label that is
\* not in the index gets a row of NaN.
loc_rows_reindex(t, labels) ==
  IF Raised(t) THEN t
  ELSE [index |-> labels,
        columns |-> t.columns,
        cells |-> [i \in 1..Len(labels) |->
                     IF Has(t.index, labels[i]) THEN t.cells[Find(t.index, labels[i])]
                     ELSE [j \in 1..Len(t.columns) |-> NaNv]]]

\* .loc[labels]: the rows named by labels, in that order; KeyError when a
\* label is not in the index.
loc_rows(t, labels) ==
  IF Raised(t) THEN t
  ELSE IF \E k \in 1..Len(labels) : ~Has(t.index, labels[k]) THEN KeyError
  ELSE [index |-> labels,
        columns |-> t.columns,
        cells |-> [i \in 1..Len(labels) |-> t.cells[Find(t.index, labels[i])]]]

\* The labels are looked up; the columns stay in their sorted order.
loc_columns_sorted(t, labels) ==
  IF Raised(t) THEN t
  ELSE IF \E k \in 1..Len(labels) : ~Has(t.columns, labels[k]) THEN KeyError
  ELSE t

\* .loc[:, labels]: the same on the columns.
loc_columns(t, labels) ==
  IF Raised(t) THEN t
  ELSE IF \E k \in 1..Len(labels) : ~Has(t.columns, labels[k]) THEN KeyError
  ELSE [index |-> t.index,
        columns |-> labels,
        cells |-> [i \in 1..Len(t.index) |-> [j \in 1..Len(labels) |->
                     t.cells[i][Find(t.columns, labels[j])]]]]

\* table * 100 * 100.
percent_twice(t) ==
  IF Raised(t) THEN t
  ELSE [t EXCEPT !.cells = [i \in 1..Len(t.index) |-> [j \in 1..Len(t.columns) |->
          Times(Times(t.cells[i][j], 100), 100)]]]

\* table * 100.
percent(t) ==
  IF Raised(t) THEN t
  ELSE [t EXCEPT !.cells = [i \in 1..Len(t.index) |-> [j \in 1..Len(t.columns) |->
          Times(t.cells[i][j], 100)]]]

quick_crosstab(d, m, x, y, weights) ==
  percent(
    loc_columns(
      loc_rows(
        crosstab(map(Column(d, x), variable_value_labels(m, x)),
                 map(Column(d, y), variable_value_labels(m, y)),
                 weights),
        values(variable_value_labels(m, x))),
      values(variable_value_labels(m, y))))

\* ------------------------------------------------------ the inputs of a call
Seqs(S, n) == UNION {[1..k -> S] : k \in 0..n}

XCodes == {"1", "2"}
YCodes == {"A", "B"}
XLabels == {"Yes", "No"}
YLabels == {"A", "B"}

\* A dict code -> label: distinct codes, any labels (two codes may share
\* one), in any insertion order.
LabelMaps(codes, labels) ==
  {m \in Seqs(codes \X labels, Cardinality(codes)) :
     /\ Len(m) >= 1
     /\ \A i, j \in 1..Len(m) : i # j => m[i][1] # m[j][1]}

Metas == [q20a : LabelMaps(XCodes, XLabels), q3_combo : LabelMaps(YCodes, YLabels)]

\* Respondents: a raw code in each column and a weight; some whose weight is
\* zero; some with a missing raw code in one of the columns.
WeightedRows == [q20a : XCodes, q3_combo : YCodes, weights : {1}]
ZeroWeightRows == [q20a : XCodes, q3_combo : {"A"}, weights : {0}]
MissingRows ==
  {[q20a |-> NaN, q3_combo |-> "A", weights |-> 1],
   [q20a |-> "1", q3_combo |-> NaN, weights |-> 1]}
Rows == WeightedRows \cup ZeroWeightRows \cup MissingRows

\* The documented example: its table, its label maps, and the tables made of
\* its rows.
ExampleTable ==
  <<[q20a |-> "1", q3_combo |-> "A", weights |-> 2],
    [q20a |-> "2", q3_combo |-> "A", weights |-> 2],
    [q20a |-> "1", q3_combo |-> "B", weights |-> 5]>>

ExampleMeta ==
  [q20a |-> << <<"1", "Yes">>, <<"2", "No">> >>,
   q3_combo |-> << <<"A", "A">>, <<"B", "B">> >>]

ExampleRows == {ExampleTable[i] : i \in DOMAIN ExampleTable}

Unbound == [unbound |-> TRUE]

Calls == {<<"q20a", "q3_combo">>, <<"q3_combo", "q20a">>}

NoNotebook == files = <<>> /\ ns = <<>> /\ pc = 0 /\ err = ""

Init ==
  /\ \/ df \in Seqs(Rows, MaxRows)
     \/ df \in Seqs(ExampleRows, MaxExampleRows)
  /\ meta \in Metas
  /\ ct = [p \in Calls |-> Unbound]
  /\ last = <<>>
  /\ prev = Unbound
  /\ NoNotebook

\* The call with the label mapping done in place (df[x] = df[x].map(...)).
CallInPlace(x, y) ==
  /\ ct' = [ct EXCEPT ![<<x, y>>] = quick_crosstab(df, meta, x, y, Column(df, "weights"))]
  /\ last' = <<x, y>>
  /\ df' = [i \in 1..Len(df) |->
              [df[i] EXCEPT ![x] = map(Column(df, x), variable_value_labels(meta, x))[i],
                            ![y] = map(Column(df, y), variable_value_labels(meta, y))[i]]]
  /\ UNCHANGED <<meta, files, ns, pc, err>>

\* The call handing out one shared table: every name bound to an earlier
\* result sees the new one.
CallShared(x, y) ==
  /\ ct' = [p \in Calls |->
              IF p = <<x, y>> \/ ct[p] # Unbound
              THEN quick_crosstab(df, meta, x, y, Column(df, "weights"))
              ELSE Unbound]
  /\ last' = <<x, y>>
  /\ UNCHANGED <<df, meta, files, ns, pc, err>>

\* ct = quick_crosstab(df, meta, x, y, df.weights): the result is a fresh
\* table; df[x].map(...) builds a new Series, nothing is assigned to df or
\* meta.
Call(x, y) ==
  /\ ct' = [ct EXCEPT ![<<x, y>>] = quick_crosstab(df, meta, x, y, Column(df, "weights"))]
  /\ last' = <<x, y>>
  /\ UNCHANGED <<df, meta, files, ns, pc, err>>

Next == Call("q20a", "q3_combo") /\ UNCHANGED prev

Spec == Init /\ [][Next]_vars

\* A session that calls quick_crosstab again and again, on either axis pair.
SessionInit ==
  /\ df \in Seqs(Rows, MaxSessionRows)
  /\ meta \in Metas
  /\ ct = [p \in Calls |-> Unbound]
  /\ last = <<>>
  /\ prev = Unbound
  /\ NoNotebook

SessionNext == \E p \in Calls : Call(p[1], p[2]) /\ prev' = ct[p]

SessionSpec == SessionInit /\ [][SessionNext]_vars

\* ------------------------------------------------------------ the notebook
\* The code cells run once each, in order; a cell that raised leaves the
\* kernel ready for the next.
Names ==
  {"pd", "pyreadstat", "np", "plt", "sns", "df15", "meta15", "df18", "meta18",
   "quick_crosstab", "demo", "ct15_whites", "ct15_blacks", "ct15_asians",
   "ct18_voting", "pt"}

Bound(v) == [value |-> v]

\* Parts a, c and d of question 20 share their value labels.
SurveyRows ==
  [q20a : XCodes, q20c : XCodes, q20d : XCodes, q3_combo : YCodes, weights : {1}]

SurveyMetas ==
  {[q20a |-> m, q20c |-> m, q20d |-> m, q3_combo |-> d] :
     m \in LabelMaps(XCodes, XLabels), d \in LabelMaps(YCodes, YLabels)}

Latino2018 ==
  [df |-> <<[qn14b |-> "1", qn3 |-> "A", weight |-> 1]>>,
   meta |-> [qn14b |-> << <<"1", "Yes">> >>, qn3 |-> << <<"A", "A">> >>]]

NoSession == df = <<>> /\ meta = <<>> /\ ct = <<>> /\ last = <<>> /\ prev = Unbound

NotebookInit ==
  /\ \E d \in Seqs(SurveyRows, MaxSurveyRows), m \in SurveyMetas :
       files = [latino2015 |-> [df |-> d, meta |-> m], latino2018 |-> Latino2018]
  /\ ns = [n \in Names |-> Unbound]
  /\ pc = 1
  /\ err = ""
  /\ NoSession

Bind(space, n, v) == [space EXCEPT ![n] = Bound(v)]

\* import pandas as pd, pyreadstat, numpy as np, matplotlib.pyplot as plt,
\* seaborn as sns; with the alias pt bound as well.
ImportedNamesWithPt == {"pd", "pyreadstat", "np", "plt", "sns", "pt"}

\* import pandas as pd, pyreadstat, numpy as np, matplotlib.pyplot as plt,
\* seaborn as sns
ImportedNames == {"pd", "pyreadstat", "np", "plt", "sns"}

ImportCell ==
  /\ pc = 1
  /\ ns' = [n \in Names |-> IF n \in ImportedNames THEN Bound("module") ELSE ns[n]]
  /\ err' = ""
  /\ pc' = 2
  /\ UNCHANGED <<df, meta, ct, last, prev, files>>

\* df15, meta15 = pyreadstat.read_sav('latino2015.sav'); the same for 2018
ReadCell ==
  /\ pc = 2
  /\ IF ns["pyreadstat"] = Unbound
     THEN ns' = ns /\ err' = "NameError"
     ELSE /\ ns' = Bind(Bind(Bind(Bind(ns,
                     "df15", files.latino2015.df), "meta15", files.latino2015.meta),
                     "df18", files.latino2018.df), "meta18", files.latino2018.meta)
          /\ err' = ""
  /\ pc' = 3
  /\ UNCHANGED <<df, meta, ct, last, prev, files>>

\* def quick_crosstab(df, meta, x, y, weights): ...
DefCell ==
  /\ pc = 3
  /\ ns' = Bind(ns, "quick_crosstab", "function")
  /\ err' = ""
  /\ pc' = 4
  /\ UNCHANGED <<df, meta, ct, last, prev, files>>

\* name = quick_crosstab(df15, meta15, x, demo, df15.weights), as one
\* statement of a cell: <<the namespace after it, the exception it raised>>.
AssignCrosstab(st, name, x) ==
  IF st[2] # "" THEN st
  ELSE LET space == st[1] IN
    IF \E n \in {"quick_crosstab", "df15", "meta15", "demo", "pd"} : space[n] = Unbound
    THEN <<space, "NameError">>
    ELSE LET t == quick_crosstab(space["df15"].value, space["meta15"].value, x,
                                 space["demo"].value,
                                 Column(space["df15"].value, "weights"))
         IN IF Raised(t) THEN <<space, t.raised>> ELSE <<Bind(space, name, t), "">>

\* demo = 'q3_combo' and the three crosstabs of question 20
CrosstabCell ==
  /\ pc = 4
  /\ LET st == AssignCrosstab(
                 AssignCrosstab(
                   AssignCrosstab(<<Bind(ns, "demo", "q3_combo"), "">>,
                                  "ct15_whites", "q20a"),
                   "ct15_blacks", "q20c"),
                 "ct15_asians", "q20d")
     IN ns' = st[1] /\ err' = st[2]
  /\ pc' = 5
  /\ UNCHANGED <<df, meta, ct, last, prev, files>>

\* sns.heatmap(table, cmap='rocket'); plt.title(...)
HeatmapCell(cell, table) ==
  /\ pc = cell
  /\ err' = IF \E n \in {"sns", table, "plt"} : ns[n] = Unbound THEN "NameError" ELSE ""
  /\ pc' = cell + 1
  /\ UNCHANGED <<df, meta, ct, last, prev, files, ns>>

\* ct18_voting = pt.quick_crosstab(df18, meta18, 'qn14b', 'qn3', df18.weight):
\* the callee is evaluated first; pt is looked up before any argument, and a
\* module bound by the import cell has no attribute quick_crosstab.
FinalCell ==
  /\ pc = 8
  /\ err' = IF ns["pt"] = Unbound THEN "NameError" ELSE "AttributeError"
  /\ pc' = 9
  /\ UNCHANGED <<df, meta, ct, last, prev, files, ns>>

NotebookNext ==
  \/ ImportCell
  \/ ReadCell
  \/ DefCell
  \/ CrosstabCell
  \/ HeatmapCell(5, "ct15_whites")
  \/ HeatmapCell(6, "ct15_blacks")
  \/ HeatmapCell(7, "ct15_asians")
  \/ FinalCell

NotebookSpec == NotebookInit /\ [][NotebookNext]_vars

\* ================================================================= claims
\* What the claims speak of, stated on the inputs alone.
Returned == last # <<>>
Result == ct[last]
IsTable(t) == "index" \in DOMAIN t

\* The label the label map of column c gives row i, NaN when it gives none.
RowLabel(i, c) ==
  LET hits == {k \in DOMAIN meta[c] : meta[c][k][1] = df[i][c]}
  IN IF hits = {} THEN NaN ELSE meta[c][CHOOSE k \in hits : TRUE][2]

\* A counted row: mapped on both axes of the latest call.
Counted(i) == RowLabel(i, last[1]) # NaN /\ RowLabel(i, last[2]) # NaN

CountedRows == {i \in DOMAIN df : Counted(i)}

RECURSIVE SumWeights(_)
SumWeights(I) ==
  IF I = {} THEN 0
  ELSE LET i == CHOOSE k \in I : TRUE IN df[i].weights + SumWeights(I \ {i})

CellWeight(r, c) ==
  SumWeights({i \in CountedRows : RowLabel(i, last[1]) = r /\ RowLabel(i, last[2]) = c})

ColumnTotal(c) == SumWeights({i \in CountedRows : RowLabel(i, last[2]) = c})

MapLabels(c) == [k \in DOMAIN meta[c] |-> meta[c][k][2]]

\* A label of the map of c that no counted row carries on that axis.
Uncarried(c) ==
  {l \in {meta[c][k][2] : k \in DOMAIN meta[c]} :
     \A i \in CountedRows : RowLabel(i, c) # l}

RECURSIVE CellsSum(_, _, _)
CellsSum(t, j, i) ==
  IF i > Len(t.index) THEN Num(0) ELSE Add(t.cells[i][j], CellsSum(t, j, i + 1))

Percent(w, total) == Frac(100 * w, total)

\* C1: every column of a returned table whose y label has positive total
\* weight sums to 100.
C1_ColumnsSumTo100 ==
  (Returned /\ IsTable(Result)) =>
    \A j \in DOMAIN Result.columns :
      ColumnTotal(Result.columns[j]) > 0 => CellsSum(Result, j, 1) = Num(100)

\* What is left of it: the columns sum to 100 when the labels of the map of x
\* are pairwise distinct, so that .loc selects every row once.
SumTo100WhenLabelsDistinct ==
  (Returned /\ \A k, l \in DOMAIN meta[last[1]] :
                 k # l => meta[last[1]][k][2] # meta[last[1]][l][2])
    => C1_ColumnsSumTo100

\* C2: the row index of a returned table is the label sequence of the map of
\* x, its column index the label sequence of the map of y.
C2_AxesFollowLabelMap ==
  (Returned /\ IsTable(Result)) =>
    /\ Result.index = MapLabels(last[1])
    /\ Result.columns = MapLabels(last[2])

\* the map's order is neither the sorted order nor the order of the rows
C2_Witness ==
  /\ Returned /\ IsTable(Result)
  /\ Result.index = <<"Yes", "No">>
  /\ Result.columns = <<"B", "A">>
  /\ Len(df) = 2 /\ RowLabel(1, "q20a") = "No" /\ RowLabel(1, "q3_combo") = "A"
  /\ \A i \in DOMAIN df : df[i].weights > 0

\* C3: a label of either map that no counted row carries makes the call
\* raise; no table is returned that lacks a label of the maps.
C3_UncarriedLabelRaises ==
  Returned =>
    /\ (Uncarried(last[1]) # {} \/ Uncarried(last[2]) # {}) => Result = KeyError
    /\ IsTable(Result) =>
         /\ \A k \in DOMAIN meta[last[1]] : Has(Result.index, meta[last[1]][k][2])
         /\ \A k \in DOMAIN meta[last[2]] : Has(Result.columns, meta[last[2]][k][2])

C3_Witness ==
  /\ Returned /\ Result = KeyError
  /\ Uncarried(last[1]) = {"No"} /\ Uncarried(last[2]) = {}
  /\ CountedRows # {}

\* The table without the rows that have no label on an axis of the call.
CountedOnly == SelectSeq(df, LAMBDA r :
                 /\ \E k \in DOMAIN meta[last[1]] : meta[last[1]][k][1] = r[last[1]]
                 /\ \E k \in DOMAIN meta[last[2]] : meta[last[2]][k][1] = r[last[2]])

\* C4: the result is the result for the table without the rows that are
\* unmapped or missing on either axis; such rows add to no cell and no total.
C4_UnmappedRowsDropped ==
  Returned =>
    Result = quick_crosstab(CountedOnly, meta, last[1], last[2], Column(CountedOnly, "weights"))

\* a respondent with a missing code, in the column of a counted respondent
C4_Witness ==
  /\ Returned /\ IsTable(Result)
  /\ Len(df) = 2
  /\ df[1]["q20a"] = NaN /\ Counted(2)
  /\ RowLabel(1, "q3_combo") = RowLabel(2, "q3_combo")
  /\ \A i \in DOMAIN df : df[i].weights > 0

\* A column of the latest call's table: a y label some counted row carries.
ZeroWeightColumns ==
  {c \in {RowLabel(i, last[2]) : i \in CountedRows} : ColumnTotal(c) = 0}

\* Every cell of the result is 100 * (weight of the cell) / (weight of the
\* column) in the columns of positive weight.
CellsArePercentages(t) ==
  \A i \in DOMAIN t.index : \A j \in DOMAIN t.columns :
    ColumnTotal(t.columns[j]) > 0 =>
      t.cells[i][j] = Percent(CellWeight(t.index[i], t.columns[j]), ColumnTotal(t.columns[j]))

\* C5 as claimed: a y label carried by counted rows whose weights sum to zero
\* gives a column of not-a-number cells.
C5_ZeroWeightColumnIsNaN ==
  (Returned /\ IsTable(Result)) =>
    \A j \in DOMAIN Result.columns :
      Result.columns[j] \in ZeroWeightColumns =>
        \A i \in DOMAIN Result.index : IsNaN(Result.cells[i][j])

\* C5 amended: a zero-weight column raises nothing by itself (the call raises
\* only for a label no counted row carries); every cell of the column is 0,
\* and the other columns are normalised as usual.
C5_ZeroWeightColumnIsZero ==
  (Returned /\ ZeroWeightColumns # {}) =>
    /\ (Uncarried(last[1]) = {} /\ Uncarried(last[2]) = {}) => IsTable(Result)
    /\ IsTable(Result) =>
         /\ \A j \in DOMAIN Result.columns :
              Result.columns[j] \in ZeroWeightColumns =>
                \A i \in DOMAIN Result.index : Result.cells[i][j] = Num(0)
         /\ CellsArePercentages(Result)

C5_Witness ==
  /\ Returned /\ IsTable(Result)
  /\ ZeroWeightColumns = {"A"}
  /\ ColumnTotal("B") > 0
  /\ Result.columns = <<"A", "B">>

\* The call of the documented example.
IsExample == df = ExampleTable /\ meta = ExampleMeta /\ last = <<"q20a", "q3_combo">>

\* The cells of positive-weight columns that no counted row falls into.
EmptyCells(t) ==
  {ij \in (DOMAIN t.index) \X (DOMAIN t.columns) :
     /\ ColumnTotal(t.columns[ij[2]]) > 0
     /\ \A r \in CountedRows :
          ~(RowLabel(r, last[1]) = t.index[ij[1]] /\ RowLabel(r, last[2]) = t.columns[ij[2]])}

\* C6 as claimed: a cell no row falls into, in a column of positive weight, is
\* not-a-number; the example gives A: Yes=50, No=50 and B: Yes=100, No=NaN.
C6_EmptyCellIsNaN ==
  /\ (Returned /\ IsTable(Result)) =>
       \A ij \in EmptyCells(Result) : IsNaN(Result.cells[ij[1]][ij[2]])
  /\ IsExample =>
       Result = [index |-> <<"Yes", "No">>, columns |-> <<"A", "B">>,
                 cells |-> << <<Num(50), Num(100)>>, <<Num(50), NaNv>> >>]

\* C6 amended: such a cell is 0; the example gives A: Yes=50, No=50 and
\* B: Yes=100, No=0.
C6_EmptyCellIsZero ==
  /\ (Returned /\ IsTable(Result)) =>
       \A ij \in EmptyCells(Result) : Result.cells[ij[1]][ij[2]] = Num(0)
  /\ IsExample =>
       Result = [index |-> <<"Yes", "No">>, columns |-> <<"A", "B">>,
                 cells |-> << <<Num(50), Num(100)>>, <<Num(50), Num(0)>> >>]

C6_Witness == IsExample /\ IsTable(Result) /\ EmptyCells(Result) = {<<2, 2>>}

\* C8: every cell of a returned table, in a column of positive weight, is 100
\* times the weight of the rows of the cell over the weight of the counted
\* rows of the column.
C8_CellIsPercentOfColumn == (Returned /\ IsTable(Result)) => CellsArePercentages(Result)

\* a cell that is no whole percent and differs from its fraction
C8_Witness ==
  /\ Returned /\ IsTable(Result)
  /\ \E i \in DOMAIN Result.index : \E j \in DOMAIN Result.columns :
       /\ Result.cells[i][j] = <<200, 7>>
       /\ CellWeight(Result.index[i], Result.columns[j]) = 2
       /\ ColumnTotal(Result.columns[j]) = 7

\* C7: a call with the arguments of an earlier call returns what that call
\* returned (the same table or the same error), whatever was called between.
C7_SameCallSameResult == (Returned /\ prev # Unbound) => Result = prev

\* the second call of <<q20a, q3_combo>>, the other pair called as well
C7_Witness ==
  /\ last = <<"q20a", "q3_combo">>
  /\ IsTable(prev)
  /\ IsTable(ct[<<"q3_combo", "q20a">>])
  /\ Len(df) > 0

\* C9: a call leaves the table (raw codes and weights), the label map and the
\* tables bound by earlier calls as they were.
C9_CallLeavesInputsAndTables ==
  [][/\ df' = df
     /\ meta' = meta
     /\ \A p \in Calls : (ct[p] # Unbound /\ p # last') => ct'[p] = ct[p]]_vars

\* a call that returned a table while the table of an earlier call was bound
C9_Witness ==
  /\ last = <<"q3_combo", "q20a">>
  /\ IsTable(Result)
  /\ IsTable(ct[<<"q20a", "q3_combo">>])
  /\ \E i \in DOMAIN df : df[i].weights > 0

Q20Tables == {"ct15_whites", "ct15_blacks", "ct15_asians"}

\* C10: run in order, the final cell raises NameError on pt, binds no
\* ct18_voting and leaves the three tables of question 20 as they were.
C10_FinalCellRaisesNameError ==
  [][(pc = 8 /\ pc' = 9) =>
       /\ err' = "NameError"
       /\ ns'["ct18_voting"] = Unbound
       /\ \A n \in Q20Tables : ns'[n] = ns[n]]_vars

\* the notebook has run to its end with the three tables computed
C10_Witness ==
  /\ pc = 9
  /\ err = "NameError"
  /\ \A n \in Q20Tables : ns[n] # Unbound /\ IsTable(ns[n].value)
  /\ ns["ct18_voting"] = Unbound
  /\ Len(ns["df15"].value) > 0

====
